---- MODULE Spec2Model ----
(***************************************************************************)
(* Model of the Selector class of src/src/selector.ts: the drag selection  *)
(* controller, the document it acts on (the selection <div>, the event     *)
(* listeners, the mark classes of the selectable elements) and the two     *)
(* caller callbacks.  Coordinates are integers on a small grid.            *)
(***************************************************************************)
EXTENDS Integers, Sequences, FiniteSets

\* ------------------------------------------------------------------ bounds
\* Largest viewport coordinate an input event can carry.
MaxCoord == 4
\* A caller supplied clickThreshold, smaller than the default.
CustomThreshold == 1
\* Largest horizontal scroll offset of the page.
MaxScroll == 1

\* ------------------------------------------------------- program constants
ADD == "ADD"
REMOVE == "REMOVE"
SelectionMarkMode == {ADD, REMOVE}

PARTIAL_COVER == "PARTIAL_COVER"
FULL_COVER == "FULL_COVER"
SelectionMode == {PARTIAL_COVER, FULL_COVER}

\* The two mark classes (markAddSelectedClass, markRemoveSelectedClass).
markAddSelectedClass == "mark_add_selected"
markRemoveSelectedClass == "mark_remove_selected"

\* ------------------------------------------------------------ the document
Coords == 0..MaxCoord
Point == [x : Coords, y : Coords]
\* window.scrollX / window.scrollY of a page that is not scrolled.
NotScrolled == [x |-> 0, y |-> 0]

Rect(l, t, r, b) == [top |-> t, left |-> l, right |-> r, bottom |-> b]

\* window.scrollX / window.scrollY of a page scrolled to the right.
Scrolled == [x |-> MaxScroll, y |-> 0]

\* Page rectangle of the element found by selectablesRootQuery.
RootPageRect == Rect(1, 1, 3, 3)

\* Page rectangle of the element found by the selectablesRootQuery of a
\* second Selector of the same page; the two boxes are disjoint.
OtherRootPageRect == Rect(4, 1, 5, 3)

\* Page rectangles of the elements that match selectableElementsQuery, in
\* document order.  1 and 2 share an edge, 3 has zero width, 4 touches 1 in a
\* corner; 5 lies below the other root.
ElementPageRects ==
    << Rect(1, 1, 2, 2), Rect(2, 1, 3, 2), Rect(1, 2, 1, 3), Rect(2, 2, 3, 3),
       Rect(4, 1, 5, 2) >>

\* The root each of these elements is a descendant of.
ElementRoots ==
    << RootPageRect, RootPageRect, RootPageRect, RootPageRect, OtherRootPageRect >>

Elements == DOMAIN ElementPageRects

\* Element.getBoundingClientRect(): page rectangle seen through the scroll.
getBoundingClientRect(pageRect, scr) ==
    Rect(pageRect.left - scr.x, pageRect.top - scr.y,
         pageRect.right - scr.x, pageRect.bottom - scr.y)

\* Touch.pageX / Touch.pageY of a touch at viewport position p.
pageLocation(p, scr) == [x |-> p.x + scr.x, y |-> p.y + scr.y]

\* MouseEvent.clientX / MouseEvent.clientY of the pointer at position p.
clientLocation(p, scr) == [x |-> p.x, y |-> p.y]

\* An event on the root is dispatched only for a pointer inside its box.
insideRoot(p, scr) ==
    LET r == getBoundingClientRect(RootPageRect, scr)
    IN  r.left <= p.x /\ p.x <= r.right /\ r.top <= p.y /\ p.y <= r.bottom

\* The listeners mount() registers.
ListenerTypes ==
    {"mouseup", "mousemove", "mousedown",
     "touchend", "touchcancel", "touchmove", "touchstart"}

\* EventTarget.addEventListener: the same callback is registered once.
addEventListener(ls, type) == [ls EXCEPT ![type] = IF @ = 0 THEN 1 ELSE @]

\* EventTarget.removeEventListener
removeEventListener(ls, type) == [ls EXCEPT ![type] = 0]

RECURSIVE addAll(_, _)
addAll(ls, types) ==
    IF types = {} THEN ls
    ELSE LET t == CHOOSE t \in types : TRUE
         IN  addAll(addEventListener(ls, t), types \ {t})

RECURSIVE removeAll(_, _)
removeAll(ls, types) ==
    IF types = {} THEN ls
    ELSE LET t == CHOOSE t \in types : TRUE
         IN  removeAll(removeEventListener(ls, t), types \ {t})

\* ------------------------------------------------------------------- state
VARIABLES
    \* configuration, fixed by the constructor
    selectionMode,          \* PARTIAL_COVER or FULL_COVER
    hasClickCallback,       \* onClickCallback was given
    clickThreshold,
    \* fields of the Selector
    isMounted,
    selectionStarted,
    isStillClick,
    selectionStartPoint,
    selectionRectangle,
    selectionMarkMode,
    \* the document
    scroll,                 \* window.scrollX / window.scrollY
    rectNodes,              \* number of selection <div> nodes in the document
    rectStyle,              \* inline style of the selection <div>
    listeners,              \* registrations per event type
    marks,                  \* mark classes carried by each element
    inQuery,                \* the elements selectableElementsQuery matches now
    \* a second Selector of the same page, on the other root
    other,                  \* its fields, its selection <div>, its callbacks
    \* observation of the last event
    calls,                  \* callbacks invoked by the last event
    thrown,                 \* an error left the last handler
    pre,                    \* what the last end / cancel event found
    \* history of the gesture
    exceeded,               \* a move of this gesture left the click range
    lastSetMode             \* last value given to setSelectionMarkMode

config == <<selectionMode, hasClickCallback, clickThreshold>>
controller == <<isMounted, selectionStarted, isStillClick, selectionStartPoint,
                selectionRectangle, selectionMarkMode>>
document == <<scroll, rectNodes, rectStyle, listeners, marks>>
observed == <<calls, thrown, pre>>
history == <<exceeded, lastSetMode>>
vars == <<config, controller, document, observed, history, other, inQuery>>

ZeroRect == Rect(0, 0, 0, 0)
NoPre == [kind |-> "none", started |-> FALSE, marked |-> {}]

\* ------------------------------------------------------------ pure helpers
\* limitToRange() without the lower limit.
limitToRange_noLower(from, to, value) ==
    IF to <= value THEN to ELSE value

\* limitToRange(from, to, value)
limitToRange(from, to, value) ==
    IF to <= value THEN to
    ELSE IF value <= from THEN from
    ELSE value

\* computeSelectionRectangle() storing the start point left and the pointer
\* right, whichever side the pointer is on.
computeSelectionRectangle_noSwap(start, eventLocation, selectableRect) ==
    LET x == limitToRange(selectableRect.left, selectableRect.right, eventLocation.x)
        y == limitToRange(selectableRect.top, selectableRect.bottom, eventLocation.y)
    IN  [left   |-> start.x,
         right  |-> x,
         top    |-> IF y > start.y THEN start.y ELSE y,
         bottom |-> IF y > start.y THEN y ELSE start.y]

\* computeSelectionRectangle() ordering top and bottom by the test of the
\* horizontal axis.
computeSelectionRectangle_copiedTest(start, eventLocation, selectableRect) ==
    LET x == limitToRange(selectableRect.left, selectableRect.right, eventLocation.x)
        y == limitToRange(selectableRect.top, selectableRect.bottom, eventLocation.y)
    IN  [left   |-> IF x < start.x THEN x ELSE start.x,
         right  |-> IF x < start.x THEN start.x ELSE x,
         top    |-> IF x < start.x THEN y ELSE start.y,
         bottom |-> IF x < start.x THEN start.y ELSE y]

\* computeSelectionRectangle(eventLocation): the new selectionRectangle.
computeSelectionRectangle(start, eventLocation, selectableRect) ==
    LET x == limitToRange(selectableRect.left, selectableRect.right, eventLocation.x)
        y == limitToRange(selectableRect.top, selectableRect.bottom, eventLocation.y)
    IN  [left   |-> IF x < start.x THEN x ELSE start.x,
         right  |-> IF x < start.x THEN start.x ELSE x,
         top    |-> IF y > start.y THEN start.y ELSE y,
         bottom |-> IF y > start.y THEN y ELSE start.y]

Abs(n) == IF n < 0 THEN -n ELSE n

\* isInClickRange() without the test of the hypotenuse.
isInClickRange_noHypotenuse(rect, threshold) ==
    LET width == Abs(rect.right - rect.left)
        height == Abs(rect.bottom - rect.top)
    IN  IF threshold < width THEN FALSE
        ELSE IF threshold < height THEN FALSE
        ELSE TRUE

\* isInClickRange(): threshold < sqrt(w*w + h*h) is compared on the squares.
isInClickRange(rect, threshold) ==
    LET width == Abs(rect.right - rect.left)
        height == Abs(rect.bottom - rect.top)
    IN  IF threshold < width THEN FALSE
        ELSE IF threshold < height THEN FALSE
        ELSE IF threshold * threshold < width * width + height * height THEN FALSE
        ELSE TRUE

\* doOverlap() with <= in place of <: rectangles that only touch do not overlap.
doOverlap_noTouch(selectionRect, elementRect) ==
    IF elementRect.right = elementRect.left \/ elementRect.top = elementRect.bottom
    THEN FALSE
    ELSE IF elementRect.right <= selectionRect.left \/ selectionRect.right <= elementRect.left
    THEN FALSE
    ELSE IF selectionRect.bottom <= elementRect.top \/ elementRect.bottom <= selectionRect.top
    THEN FALSE
    ELSE TRUE

\* doOverlap(selectionRect, elementRect)
doOverlap(selectionRect, elementRect) ==
    IF elementRect.right = elementRect.left \/ elementRect.top = elementRect.bottom
    THEN FALSE
    ELSE IF elementRect.right < selectionRect.left \/ selectionRect.right < elementRect.left
    THEN FALSE
    ELSE IF selectionRect.bottom < elementRect.top \/ elementRect.bottom < selectionRect.top
    THEN FALSE
    ELSE TRUE

\* covers() with < in place of <=: the element has to lie strictly inside.
covers_strictlyInside(selectionRect, elementRect) ==
    IF elementRect.right = elementRect.left \/ elementRect.top = elementRect.bottom
    THEN FALSE
    ELSE /\ selectionRect.left < elementRect.left
         /\ elementRect.right < selectionRect.right
         /\ selectionRect.top < elementRect.top
         /\ elementRect.bottom < selectionRect.bottom

\* covers() comparing only the left and the top edges.
covers_leftTopOnly(selectionRect, elementRect) ==
    IF elementRect.right = elementRect.left \/ elementRect.top = elementRect.bottom
    THEN FALSE
    ELSE /\ selectionRect.left <= elementRect.left
         /\ selectionRect.top <= elementRect.top

\* covers(selectionRect, elementRect)
covers(selectionRect, elementRect) ==
    IF elementRect.right = elementRect.left \/ elementRect.top = elementRect.bottom
    THEN FALSE
    ELSE /\ selectionRect.left <= elementRect.left
         /\ elementRect.right <= selectionRect.right
         /\ selectionRect.top <= elementRect.top
         /\ elementRect.bottom <= selectionRect.bottom

\* isSelectedBySelectionRectangle(element)
isSelectedBySelectionRectangle(rect, mode, elementRect) ==
    IF mode = PARTIAL_COVER THEN doOverlap(rect, elementRect)
    ELSE covers(rect, elementRect)

\* isClicked() that never reports a zero-area selection rectangle as a click.
isClicked_needsArea(rect, elementRect) ==
    /\ rect.left # rect.right /\ rect.top # rect.bottom
    /\ doOverlap(rect, elementRect)

\* isClicked(element)
isClicked(rect, elementRect) == doOverlap(rect, elementRect)

\* The elements of the document, in document order.
documentOrder == [i \in 1..Len(ElementPageRects) |-> i]

\* document.querySelectorAll(selectableElementsQuery): the elements that match
\* the query at the time of the call, in document order.
querySelectorAll ==
    LET Matches(e) == e \in inQuery
    IN  SelectSeq(documentOrder, Matches)

\* root.querySelectorAll(selectableElementsQuery): the elements below a root
\* that match the query at the time of the call, in document order.
selectableElementsBelow(root) ==
    LET Found(e) == e \in inQuery /\ ElementRoots[e] = root
    IN  SelectSeq(documentOrder, Found)

\* getSelectableElements() returning a list made once, when every element
\* below the root matched the query.
getSelectableElements_stableList ==
    LET Below(e) == ElementRoots[e] = RootPageRect
    IN  SelectSeq(documentOrder, Below)

\* getSelectableElements() searching the whole document.
getSelectableElements_wholeDocument == querySelectorAll

\* getSelectableElements(): the elements below the root, in document order.
getSelectableElements == selectableElementsBelow(RootPageRect)

elementRect(e, scr) == getBoundingClientRect(ElementPageRects[e], scr)

\* getSelectedElements()
getSelectedElements(rect, mode, scr) ==
    LET Test(e) == isSelectedBySelectionRectangle(rect, mode, elementRect(e, scr))
    IN  SelectSeq(getSelectableElements, Test)

Range(s) == {s[i] : i \in DOMAIN s}

\* The element carries one of the two mark classes.
Marked(m) == {e \in Elements : m[e] # {}}

\* ------------------------------------------------------------- the marks
\* unmarkSelected() removing the add class only.
unmarkSelected_addOnly(classes) == classes \ {markAddSelectedClass}

\* unmarkSelected(element)
unmarkSelected(classes) == classes \ {markAddSelectedClass, markRemoveSelectedClass}

\* markSelected() adding the add class whatever the mark mode is.
markSelected_alwaysAdd(classes, markMode) == classes \cup {markAddSelectedClass}

\* markSelected(element)
markSelected(classes, markMode) ==
    IF markMode = ADD THEN classes \cup {markAddSelectedClass}
    ELSE classes \cup {markRemoveSelectedClass}

\* unmarkSelectedElements()
unmarkSelectedElements(m) ==
    LET selectable == Range(getSelectableElements)
    IN  [e \in Elements |->
            IF e \in selectable THEN unmarkSelected(m[e]) ELSE m[e]]

\* markSelectedElements() without unmarkSelectedElements() first.
markSelectedElements_noUnmark(m, rect, mode, markMode, scr) ==
    LET selected == Range(getSelectedElements(rect, mode, scr))
    IN  [e \in Elements |->
            IF e \in selected THEN markSelected(m[e], markMode)
            ELSE m[e]]

\* markSelectedElements()
markSelectedElements(m, rect, mode, markMode, scr) ==
    LET unmarked == unmarkSelectedElements(m)
        selected == Range(getSelectedElements(rect, mode, scr))
    IN  [e \in Elements |->
            IF e \in selected THEN markSelected(unmarked[e], markMode)
            ELSE unmarked[e]]

\* ------------------------------------------------------ the selection <div>
\* hideSelectionRectangle(); also the style of a <div> not in the document.
hideSelectionRectangle ==
    [left |-> 0, top |-> 0, width |-> 0, height |-> 0, opacity |-> "0"]

\* showSelectionRectangle()
showSelectionRectangle(rect, scr) ==
    [left |-> rect.left + scr.x, top |-> rect.top + scr.y,
     width |-> rect.right - rect.left, height |-> rect.bottom - rect.top,
     opacity |-> "0.3"]

\* ----------------------------------------------------------- the callbacks
ClickCall(e) == [cb |-> "onClick", elements |-> <<e>>, mode |-> "-"]
SelectedCall(es, markMode) == [cb |-> "onSelected", elements |-> es, mode |-> markMode]

\* handleSelected() filtering by overlap whatever the selection mode is.
handleSelected_overlapOnly(rect, stillClick, hasClick, mode, markMode, scr) ==
    LET selectableElements == getSelectableElements
        Clicked(e) == isClicked(rect, elementRect(e, scr))
        clicked == SelectSeq(selectableElements, Clicked)
    IN  IF stillClick /\ hasClick /\ Len(clicked) = 1
        THEN << ClickCall(clicked[1]) >>
        ELSE << SelectedCall(clicked, markMode) >>

\* handleSelected() without the return after the click callback.
handleSelected_noReturn(rect, stillClick, hasClick, mode, markMode, scr) ==
    LET selectableElements == getSelectableElements
        Clicked(e) == isClicked(rect, elementRect(e, scr))
        clicked == SelectSeq(selectableElements, Clicked)
        Selected(e) == isSelectedBySelectionRectangle(rect, mode, elementRect(e, scr))
    IN  (IF stillClick /\ hasClick /\ Len(clicked) = 1
         THEN << ClickCall(clicked[1]) >> ELSE << >>)
        \o << SelectedCall(SelectSeq(selectableElements, Selected), markMode) >>

\* handleSelected() trying a click without asking for the click callback.
shouldHandleSingleElementClick_anyway(stillClick, hasClick) == stillClick

\* handleSelected(): isStillClick && onClickCallback
shouldHandleSingleElementClick(stillClick, hasClick) == stillClick /\ hasClick

\* handleSelected(): the callbacks it invokes, in order.
handleSelected(rect, stillClick, hasClick, mode, markMode, scr) ==
    LET selectableElements == getSelectableElements
        Clicked(e) == isClicked(rect, elementRect(e, scr))
        clicked == SelectSeq(selectableElements, Clicked)
        Selected(e) == isSelectedBySelectionRectangle(rect, mode, elementRect(e, scr))
    IN  IF shouldHandleSingleElementClick(stillClick, hasClick) /\ Len(clicked) = 1
        THEN << ClickCall(clicked[1]) >>
        ELSE << SelectedCall(SelectSeq(selectableElements, Selected), markMode) >>

\* endSelection() calling cleanupSelection() after the callback, without finally.
cleanupRuns_noFinally(raised) == ~raised

\* endSelection(): the finally block runs whether or not the callback raised.
cleanupRuns(raised) == TRUE

\* mount() without the isMounted guard.
shouldMount_always(mounted) == TRUE

\* mount() / unmount() guards
shouldMount(mounted) == ~mounted
shouldUnmount(mounted) == mounted

\* unmount() forgetting the touchmove listener.
unmountedListeners_leak == ListenerTypes \ {"touchmove"}

\* The listeners mount() adds and unmount() removes.
mountedListeners == ListenerTypes
unmountedListeners == ListenerTypes

\* onMove() re-evaluating isStillClick on every move.
stillClickAfterMove_unlatched(stillClick, rect, threshold) ==
    isInClickRange(rect, threshold)

\* onMove(): isStillClick is only re-evaluated while it is still true.
stillClickAfterMove(stillClick, rect, threshold) ==
    IF stillClick THEN isInClickRange(rect, threshold) ELSE stillClick

\* ----------------------------------------------------------------- actions
\* The second Selector right after its constructor: PARTIAL_COVER, mark mode
\* ADD, no click callback.
OtherConstructed ==
    [isMounted |-> FALSE, selectionStarted |-> FALSE, isStillClick |-> TRUE,
     selectionStartPoint |-> [x |-> 0, y |-> 0], selectionRectangle |-> ZeroRect,
     rectStyle |-> hideSelectionRectangle, calls |-> << >>]

\* The fields and the document right after the constructor, on a page
\* scrolled by scr.
Constructed(scr) ==
    /\ clickThreshold = CustomThreshold
    /\ isMounted = FALSE
    /\ selectionStarted = FALSE
    /\ isStillClick = TRUE
    /\ selectionStartPoint = [x |-> 0, y |-> 0]
    /\ selectionRectangle = ZeroRect
    /\ scroll = scr
    /\ rectNodes = 0
    /\ rectStyle = hideSelectionRectangle
    /\ listeners = [t \in ListenerTypes |-> 0]
    /\ marks = [e \in Elements |-> {}]
    /\ calls = << >>
    /\ thrown = FALSE
    /\ pre = NoPre
    /\ exceeded = FALSE
    /\ lastSetMode = selectionMarkMode
    /\ other = OtherConstructed
    /\ inQuery = Elements

Init ==
    /\ selectionMode \in SelectionMode
    /\ hasClickCallback \in BOOLEAN
    /\ selectionMarkMode \in SelectionMarkMode
    /\ Constructed(NotScrolled)

\* One configuration: full cover, no click callback, mark mode ADD.
DragInit ==
    /\ selectionMode = FULL_COVER
    /\ hasClickCallback = FALSE
    /\ selectionMarkMode = ADD
    /\ Constructed(NotScrolled)

\* Partial cover and a click callback, on a page scrolled to the right.
ScrolledInit ==
    /\ selectionMode = PARTIAL_COVER
    /\ hasClickCallback = TRUE
    /\ selectionMarkMode = ADD
    /\ Constructed(Scrolled)

Quiet == calls' = << >> /\ thrown' = FALSE /\ pre' = NoPre

\* An event no listener is registered for, or a handler that returns at once.
Ignored == UNCHANGED <<config, other, inQuery, controller, document, history>> /\ Quiet

\* mount()
Mount ==
    /\ IF shouldMount(isMounted)
       THEN /\ rectNodes' = rectNodes + 1
            /\ rectStyle' = hideSelectionRectangle
            /\ listeners' = addAll(listeners, mountedListeners)
            /\ isMounted' = TRUE
            /\ UNCHANGED <<config, other, inQuery, selectionStarted, isStillClick, selectionStartPoint,
                           selectionRectangle, selectionMarkMode, scroll, marks, history>>
            /\ Quiet
       ELSE Ignored

\* unmount()
Unmount ==
    /\ IF shouldUnmount(isMounted)
       THEN /\ rectStyle' = hideSelectionRectangle
            /\ listeners' = removeAll(listeners, unmountedListeners)
            /\ rectNodes' = IF rectNodes > 0 THEN rectNodes - 1 ELSE 0
            /\ isMounted' = FALSE
            /\ UNCHANGED <<config, other, inQuery, selectionStarted, isStillClick, selectionStartPoint,
                           selectionRectangle, selectionMarkMode, scroll, marks, history>>
            /\ Quiet
       ELSE Ignored

\* getSelectionMarkMode()
getSelectionMarkMode == selectionMarkMode

\* setSelectionMarkMode() that does not store the value it is given.
SetSelectionMarkMode_ignored(m) ==
    /\ lastSetMode' = m
    /\ UNCHANGED <<config, other, inQuery, controller, document, exceeded>>
    /\ Quiet

\* setSelectionMarkMode(selectionMarkMode)
SetSelectionMarkMode(m) ==
    /\ selectionMarkMode' = m
    /\ lastSetMode' = m
    /\ UNCHANGED <<config, other, inQuery, isMounted, selectionStarted, isStillClick,
                   selectionStartPoint, selectionRectangle, document, exceeded>>
    /\ Quiet

\* startSelection(eventLocation)
startSelection(eventLocation) ==
    /\ selectionStarted' = TRUE
    /\ isStillClick' = TRUE
    /\ selectionStartPoint' = [x |-> eventLocation.x, y |-> eventLocation.y]
    /\ selectionRectangle' = Rect(eventLocation.x, eventLocation.y,
                                  eventLocation.x, eventLocation.y)
    /\ exceeded' = FALSE
    /\ UNCHANGED <<config, other, inQuery, isMounted, selectionMarkMode, document, lastSetMode>>
    /\ Quiet

\* onMove() without the check that a gesture was started.
moveIgnored_never(started) == FALSE

\* onMove(): the event is ignored when the user did not start dragging yet.
moveIgnored(started) == ~started

\* onMove(eventLocation)
onMove(eventLocation) ==
    IF moveIgnored(selectionStarted)
    THEN Ignored
    ELSE LET rect == computeSelectionRectangle(selectionStartPoint, eventLocation,
                         getBoundingClientRect(RootPageRect, scroll))
         IN  /\ selectionRectangle' = rect
             /\ rectStyle' = showSelectionRectangle(rect, scroll)
             /\ isStillClick' = stillClickAfterMove(isStillClick, rect, clickThreshold)
             /\ marks' = markSelectedElements(marks, rect, selectionMode,
                                              selectionMarkMode, scroll)
             /\ exceeded' = (exceeded \/ ~isInClickRange(rect, clickThreshold))
             /\ UNCHANGED <<config, other, inQuery, isMounted, selectionStarted, selectionStartPoint,
                            selectionMarkMode, scroll, rectNodes, listeners, lastSetMode>>
             /\ Quiet

\* cleanupSelection() without unmarkSelectedElements().
cleanupSelection_noUnmark ==
    /\ rectStyle' = hideSelectionRectangle
    /\ selectionRectangle' = ZeroRect
    /\ marks' = marks

\* cleanupSelection()
cleanupSelection ==
    /\ rectStyle' = hideSelectionRectangle
    /\ selectionRectangle' = ZeroRect
    /\ marks' = unmarkSelectedElements(marks)

Found(kind) == [kind |-> kind, started |-> selectionStarted, marked |-> Marked(marks)]

\* endSelection(); raises tells whether the caller's callback throws.
endSelection(raises) ==
    IF ~selectionStarted
    THEN /\ UNCHANGED <<config, other, inQuery, controller, document, history>>
         /\ calls' = << >> /\ thrown' = FALSE /\ pre' = Found("end")
    ELSE /\ selectionStarted' = FALSE
         /\ calls' = handleSelected(selectionRectangle, isStillClick, hasClickCallback,
                                    selectionMode, selectionMarkMode, scroll)
         /\ thrown' = raises
         /\ pre' = Found("end")
         /\ IF cleanupRuns(raises)
            THEN cleanupSelection
            ELSE UNCHANGED <<rectStyle, selectionRectangle, marks>>
         /\ UNCHANGED <<config, other, inQuery, isMounted, isStillClick, selectionStartPoint,
                        selectionMarkMode, scroll, rectNodes, listeners, history>>

\* onMouseDown(event)
MouseDown(p) ==
    /\ insideRoot(p, scroll)
    /\ IF listeners["mousedown"] > 0
       THEN startSelection(clientLocation(p, scroll))
       ELSE Ignored

\* onMouseMove(event)
MouseMove(p) ==
    /\ IF listeners["mousemove"] > 0
       THEN onMove(clientLocation(p, scroll))
       ELSE Ignored

\* onMouseUp(event)
MouseUp(raises) ==
    /\ IF listeners["mouseup"] > 0 THEN endSelection(raises) ELSE Ignored

\* onTouchStart(event)
TouchStart(p) ==
    /\ insideRoot(p, scroll)
    /\ IF listeners["touchstart"] > 0
       THEN startSelection(pageLocation(p, scroll))
       ELSE Ignored

\* onTouchMove(event)
TouchMove(p) ==
    /\ IF listeners["touchmove"] > 0
       THEN onMove(pageLocation(p, scroll))
       ELSE Ignored

\* onTouchEnd(event)
TouchEnd(raises) ==
    /\ IF listeners["touchend"] > 0 THEN endSelection(raises) ELSE Ignored

\* onTouchCancel(event)
TouchCancel ==
    /\ IF listeners["touchcancel"] > 0
       THEN /\ cleanupSelection
            /\ calls' = << >> /\ thrown' = FALSE /\ pre' = Found("cancel")
            /\ UNCHANGED <<config, other, inQuery, isMounted, selectionStarted, isStillClick,
                           selectionStartPoint, selectionMarkMode, scroll, rectNodes,
                           listeners, history>>
       ELSE Ignored

Next ==
    \/ Mount
    \/ Unmount
    \/ \E m \in SelectionMarkMode : SetSelectionMarkMode(m)
    \/ \E p \in Point : MouseDown(p)
    \/ \E p \in Point : MouseMove(p)
    \/ \E raises \in BOOLEAN : MouseUp(raises)
    \/ \E p \in Point : TouchStart(p)
    \/ \E p \in Point : TouchMove(p)
    \/ \E raises \in BOOLEAN : TouchEnd(raises)
    \/ TouchCancel

Spec == Init /\ [][Next]_vars

\* The gestures of one configuration, on a page that is not scrolled and on a
\* scrolled page.
DragSpec == DragInit /\ [][Next]_vars
ScrollSpec == ScrolledInit /\ [][Next]_vars

\* ------------------------------------------------ the second Selector
\* Its mousedown listener is on its own root: the event is dispatched to it
\* only for a pointer inside that root's box.
insideOtherRoot(p, scr) ==
    LET r == getBoundingClientRect(OtherRootPageRect, scr)
    IN  r.left <= p.x /\ p.x <= r.right /\ r.top <= p.y /\ p.y <= r.bottom

\* getSelectableElements() of the second Selector.
getOtherSelectableElements == selectableElementsBelow(OtherRootPageRect)

\* getSelectedElements() of the second Selector.
getOtherSelectedElements(rect, scr) ==
    LET Test(e) == isSelectedBySelectionRectangle(rect, PARTIAL_COVER,
                                                  elementRect(e, scr))
    IN  SelectSeq(getOtherSelectableElements, Test)

\* unmarkSelectedElements() of the second Selector.
unmarkOtherSelectedElements(m) ==
    LET selectable == Range(getOtherSelectableElements)
    IN  [e \in Elements |->
            IF e \in selectable THEN unmarkSelected(m[e]) ELSE m[e]]

\* markSelectedElements() of the second Selector.
markOtherSelectedElements(m, rect, scr) ==
    LET unmarked == unmarkOtherSelectedElements(m)
        selected == Range(getOtherSelectedElements(rect, scr))
    IN  [e \in Elements |->
            IF e \in selected THEN markSelected(unmarked[e], ADD)
            ELSE unmarked[e]]

\* What a handler of the second Selector leaves alone.
OtherFrame ==
    UNCHANGED <<config, controller, scroll, rectNodes, rectStyle, listeners,
                observed, history, inQuery>>

\* mount() of the second Selector.
OtherMount ==
    /\ shouldMount(other.isMounted)
    /\ other' = [other EXCEPT !.isMounted = TRUE,
                              !.rectStyle = hideSelectionRectangle,
                              !.calls = << >>]
    /\ UNCHANGED marks
    /\ OtherFrame

\* onMouseDown(event) of the second Selector.
OtherMouseDown(p) ==
    /\ other.isMounted
    /\ insideOtherRoot(p, scroll)
    /\ other' = [other EXCEPT
                    !.selectionStarted = TRUE,
                    !.isStillClick = TRUE,
                    !.selectionStartPoint = clientLocation(p, scroll),
                    !.selectionRectangle = Rect(p.x, p.y, p.x, p.y),
                    !.calls = << >>]
    /\ UNCHANGED marks
    /\ OtherFrame

\* onMouseMove(event) of the second Selector: the listener is on the document.
OtherMouseMove(p) ==
    /\ other.isMounted
    /\ IF moveIgnored(other.selectionStarted)
       THEN /\ other' = [other EXCEPT !.calls = << >>]
            /\ UNCHANGED marks
       ELSE LET rect == computeSelectionRectangle(other.selectionStartPoint,
                            clientLocation(p, scroll),
                            getBoundingClientRect(OtherRootPageRect, scroll))
            IN  /\ other' = [other EXCEPT
                               !.selectionRectangle = rect,
                               !.rectStyle = showSelectionRectangle(rect, scroll),
                               !.isStillClick =
                                   stillClickAfterMove(other.isStillClick, rect,
                                                       clickThreshold),
                               !.calls = << >>]
                /\ marks' = markOtherSelectedElements(marks, rect, scroll)
    /\ OtherFrame

\* onMouseUp(event) of the second Selector: the listener is on the document.
OtherMouseUp ==
    /\ other.isMounted
    /\ IF ~other.selectionStarted
       THEN /\ other' = [other EXCEPT !.calls = << >>]
            /\ UNCHANGED marks
       ELSE /\ other' = [other EXCEPT
                           !.selectionStarted = FALSE,
                           !.calls = << SelectedCall(
                                getOtherSelectedElements(other.selectionRectangle,
                                                         scroll), ADD) >>,
                           !.rectStyle = hideSelectionRectangle,
                           !.selectionRectangle = ZeroRect]
            /\ marks' = unmarkOtherSelectedElements(marks)
    /\ OtherFrame

\* onTouchCancel(event) of the second Selector.
OtherTouchCancel ==
    /\ other.isMounted
    /\ other' = [other EXCEPT !.rectStyle = hideSelectionRectangle,
                              !.selectionRectangle = ZeroRect,
                              !.calls = << >>]
    /\ marks' = unmarkOtherSelectedElements(marks)
    /\ OtherFrame

\* The positions of the pointer on a page with two Selectors: corners of the
\* first root and the positions to their right inside the second root.
TwoPoint == {p \in Point : p.x \in {1, 3, 4} /\ p.y \in {1, 3}}

TwoInit ==
    /\ selectionMode = PARTIAL_COVER
    /\ hasClickCallback = FALSE
    /\ selectionMarkMode = ADD
    /\ Constructed(NotScrolled)

\* Every handler runs on its own: a document-level event is a step of each
\* Selector that listens to it, in either order.
TwoNext ==
    \/ Mount
    \/ OtherMount
    \/ \E p \in TwoPoint : MouseDown(p)
    \/ \E p \in TwoPoint : MouseMove(p)
    \/ MouseUp(FALSE)
    \/ \E p \in TwoPoint : OtherMouseDown(p)
    \/ \E p \in TwoPoint : OtherMouseMove(p)
    \/ OtherMouseUp
    \/ OtherTouchCancel

\* Two Selectors mounted on disjoint roots of one page.
TwoSpec == TwoInit /\ [][TwoNext]_vars

\* ------------------------------------------- a page that changes its elements
\* The host page makes an element below the root match selectableElementsQuery
\* (it adds the class the query asks for); the element's other classes stay.
StartsMatching(e) ==
    /\ ElementRoots[e] = RootPageRect
    /\ e \notin inQuery
    /\ inQuery' = inQuery \cup {e}
    /\ UNCHANGED <<config, controller, document, history, other>>
    /\ Quiet

\* The host page makes an element below the root stop matching the query; the
\* element stays in the document and keeps its other classes.
StopsMatching(e) ==
    /\ ElementRoots[e] = RootPageRect
    /\ e \in inQuery
    /\ inQuery' = inQuery \ {e}
    /\ UNCHANGED <<config, controller, document, history, other>>
    /\ Quiet

DynInit ==
    /\ selectionMode = PARTIAL_COVER
    /\ hasClickCallback = FALSE
    /\ selectionMarkMode = ADD
    /\ Constructed(NotScrolled)

\* The positions of the pointer on that page: corners of the first two
\* elements.
DynPoint == {p \in Point : p.x \in {1, 3} /\ p.y \in {1, 2}}

DynNext ==
    \/ Mount
    \/ \E p \in DynPoint : MouseDown(p)
    \/ \E p \in DynPoint : MouseMove(p)
    \/ MouseUp(FALSE)
    \/ \E e \in Elements : StartsMatching(e)
    \/ \E e \in Elements : StopsMatching(e)

\* Mouse gestures on a page whose set of selectable elements changes.
DynSpec == DynInit /\ [][DynNext]_vars

\* ------------------------------------------------------------ properties
Selectable == Range(getSelectableElements)

\* The selection <div> shows nothing.
Hidden(style) == style = hideSelectionRectangle

\* No selectable element carries a mark class.
NoPendingMark(m) == \A e \in Selectable : m[e] = {}

\* The last event was a mouseup / touchend that found a gesture in progress.
EndedGesture == pre.kind = "end" /\ pre.started

\* The last event was a touchcancel that found a gesture in progress.
CancelledGesture == pre.kind = "cancel" /\ pre.started

\* C1: when the caller's callback raises during mouseup / touchend of a gesture
\* in progress, the cleanup has run all the same: the gesture is over, the
\* selection rectangle is zeroed and hidden and no selectable element is marked.
C1_CleanupAfterRaise ==
    (EndedGesture /\ thrown) =>
        /\ ~selectionStarted
        /\ selectionRectangle = ZeroRect
        /\ Hidden(rectStyle)
        /\ NoPendingMark(marks)

\* A callback raised at the end of a gesture that had marked elements.
C1_Witness ==
    EndedGesture /\ thrown /\ calls # << >> /\ pre.marked # {}

\* C2: a touchcancel during a gesture in progress invokes no callback, hides
\* and zeroes the selection rectangle and unmarks every selectable element.
C2_CancelCleansUp ==
    CancelledGesture =>
        /\ calls = << >>
        /\ ~thrown
        /\ Hidden(rectStyle)
        /\ selectionRectangle = ZeroRect
        /\ NoPendingMark(marks)

\* A gesture with marked elements was cancelled.
C2_Witness == CancelledGesture /\ pre.marked # {}

\* The step is a mousedown / touchstart, a mousemove / touchmove, a
\* mouseup / touchend, or any input event at all.
StartStep == \E p \in Point : MouseDown(p) \/ TouchStart(p)
MoveStep == \E p \in Point : MouseMove(p) \/ TouchMove(p)
EndStep == \E raises \in BOOLEAN : MouseUp(raises) \/ TouchEnd(raises)
InputStep == StartStep \/ MoveStep \/ EndStep \/ TouchCancel

\* C3: after a touchcancel the gesture is over: the state is Idle and, unless a
\* new gesture starts, the next move shows no rectangle and marks nothing and
\* the next mouseup / touchend invokes no callback.
C3_CancelEndsGesture ==
    [][/\ CancelledGesture' => ~selectionStarted'
       /\ (CancelledGesture /\ ~StartStep) =>
             /\ calls' = << >>
             /\ Hidden(rectStyle')
             /\ NoPendingMark(marks')]_vars

\* C4: mount() while mounted and unmount() while not mounted change nothing;
\* there is one selection <div> and one registration of each of the seven
\* listeners exactly when the controller is mounted, and none otherwise.
C4_MountIdempotent ==
    [][/\ (Mount /\ isMounted) => UNCHANGED <<config, controller, document, history>>
       /\ (Unmount /\ ~isMounted) => UNCHANGED <<config, controller, document, history>>
       /\ rectNodes' = (IF isMounted' THEN 1 ELSE 0)
       /\ \A t \in ListenerTypes : listeners'[t] = (IF isMounted' THEN 1 ELSE 0)]_vars

\* Mounted in the middle of a gesture that shows its rectangle: a second
\* mount() has something to disturb.
C4_Witness ==
    /\ isMounted /\ rectNodes = 1
    /\ selectionStarted /\ ~Hidden(rectStyle) /\ ~NoPendingMark(marks)

\* C5: unmount() of a mounted controller removes the seven listeners and the
\* selection <div>; while the controller is unmounted no input event changes
\* its state, the selection <div> or the marks, or invokes a callback.
C5_UnmountReleases ==
    [][/\ (Unmount /\ isMounted) =>
             /\ ~isMounted'
             /\ rectNodes' = 0
             /\ \A t \in ListenerTypes : listeners'[t] = 0
       /\ (~isMounted /\ InputStep) =>
             /\ UNCHANGED <<controller, document, history>>
             /\ calls' = << >>]_vars

\* Unmounted in the middle of a gesture: a leaked listener would continue it.
C5_Witness ==
    ~isMounted /\ rectNodes = 0 /\ selectionStarted /\ selectionRectangle # ZeroRect

\* The closed rectangles a and b have a point in common.
SharePoint(a, b) ==
    \E x \in Coords, y \in Coords :
        /\ a.left <= x /\ x <= a.right /\ a.top <= y /\ y <= a.bottom
        /\ b.left <= x /\ x <= b.right /\ b.top <= y /\ y <= b.bottom

HasArea(r) == r.left # r.right /\ r.top # r.bottom

\* Every corner of the rectangle inner lies in the rectangle outer.
Within(inner, outer) ==
    /\ outer.left <= inner.left /\ inner.right <= outer.right
    /\ outer.top <= inner.top /\ inner.bottom <= outer.bottom

\* The element satisfies the configured match policy against the rectangle.
MatchesPolicy(e, rect) ==
    LET er == elementRect(e, scroll)
    IN  /\ HasArea(er)
        /\ IF selectionMode = PARTIAL_COVER THEN SharePoint(rect, er)
           ELSE Within(er, rect)

\* The sequence lists elements in document order, each once.
InDocumentOrder(es) == \A i, j \in DOMAIN es : i < j => es[i] < es[j]

SelectedCallIn(cs) == cs # << >> /\ cs[1].cb = "onSelected"
ClickCallIn(cs) == cs # << >> /\ cs[1].cb = "onClick"

ElementsAt(pt) ==
    {e \in Selectable :
        LET er == elementRect(e, scroll)
        IN  /\ HasArea(er)
            /\ er.left <= pt.x /\ pt.x <= er.right
            /\ er.top <= pt.y /\ pt.y <= er.bottom}

C8_CallbackGetsMarked ==
    (EndedGesture /\ SelectedCallIn(calls)) =>
        Range(calls[1].elements) = pre.marked

\* C9: a mouseup / touchend that finds a gesture in progress invokes exactly
\* one callback; no other event invokes any.
C9_ExactlyOneCallback ==
    IF EndedGesture THEN Len(calls) = 1 ELSE calls = << >>

\* A release that invoked the click callback.
C9_Witness == EndedGesture /\ ClickCallIn(calls) /\ Len(calls) = 1

\* The corner of the rectangle opposite to the start point: the pointer
\* position of the last move (the start point before any move).
ReleasePoint ==
    [x |-> IF selectionRectangle.left = selectionStartPoint.x
           THEN selectionRectangle.right ELSE selectionRectangle.left,
     y |-> IF selectionRectangle.top = selectionStartPoint.y
           THEN selectionRectangle.bottom ELSE selectionRectangle.top]

\* C10: with a click callback, when every move stayed in the click range and
\* exactly one selectable element contains the start point, and it contains
\* the release point too, the release invokes the click callback once with
\* that element and does not invoke the selection callback.
C10_ClickOnSingleElement ==
    [][(/\ EndStep /\ isMounted /\ selectionStarted
        /\ hasClickCallback /\ ~exceeded
        /\ Cardinality(ElementsAt(selectionStartPoint)) = 1
        /\ ElementsAt(selectionStartPoint) \subseteq ElementsAt(ReleasePoint)) =>
          \E e \in ElementsAt(selectionStartPoint) : calls' = << ClickCall(e) >>]_vars

\* Selectable elements that contain both the start point and the release point.
ClickCandidates == ElementsAt(selectionStartPoint) \cap ElementsAt(ReleasePoint)

\* C11: the release invokes the click callback only when exactly one selectable
\* element contains both the start point and the release point, and then with
\* that element; with no such element or with several the release invokes the
\* selection callback and not the click callback.
C11_ClickOnlyOnCandidate ==
    [][(EndStep /\ isMounted /\ selectionStarted) =>
          /\ ClickCallIn(calls') =>
                \E e \in ClickCandidates :
                    ClickCandidates = {e} /\ calls' = << ClickCall(e) >>
          /\ Cardinality(ClickCandidates) # 1 =>
                (Len(calls') = 1 /\ SelectedCallIn(calls'))]_vars

\* C12: once a move of the gesture in progress has left the click range, no
\* later event makes it a click again: until the release the gesture stays
\* disqualified, and the release does not invoke the click callback.
C12_ExcursionIsPermanent ==
    [][(selectionStarted /\ exceeded) =>
          /\ ~ClickCallIn(calls')
          /\ selectionStarted' => ~isStillClick']_vars

\* Square of the Euclidean distance between two points.
Distance2(a, b) == (a.x - b.x) * (a.x - b.x) + (a.y - b.y) * (a.y - b.y)

\* C13: a move whose pointer position is farther from the start point than
\* the click threshold disqualifies the gesture as a click, also when that
\* position lies outside the root.
C13_DistanceDisqualifies ==
    [][\A p \in Point :
          (/\ MouseMove(p) \/ TouchMove(p)
           /\ isMounted /\ selectionStarted
           /\ clickThreshold * clickThreshold < Distance2(selectionStartPoint, p)) =>
              ~isStillClick']_vars

\* C14: without a click callback every mouseup / touchend that finds a gesture
\* in progress invokes the selection callback exactly once, whatever the
\* displacement was, also after a press without any move.
C14_NoClickCallback ==
    (EndedGesture /\ ~hasClickCallback) =>
        (Len(calls) = 1 /\ SelectedCallIn(calls))

\* Without a click callback a press on one element was released in the click
\* range, and the selection callback got that one element.
C14_Witness ==
    /\ EndedGesture /\ ~hasClickCallback /\ ~exceeded
    /\ SelectedCallIn(calls) /\ Len(calls[1].elements) = 1
    /\ ElementsAt(selectionStartPoint) = Range(calls[1].elements)

\* C15: in every reachable state the selection rectangle has left <= right
\* and top <= bottom.
C15_RectangleOrdered ==
    /\ selectionRectangle.left <= selectionRectangle.right
    /\ selectionRectangle.top <= selectionRectangle.bottom

\* A gesture dragged up and to the left of its start point.
C15_Witness ==
    /\ selectionStarted
    /\ selectionRectangle.left < selectionStartPoint.x
    /\ selectionRectangle.top < selectionStartPoint.y

Min(a, b) == IF a <= b THEN a ELSE b
Max(a, b) == IF a <= b THEN b ELSE a

\* The value of lo..hi nearest to v.
Nearest(lo, hi, v) == Max(lo, Min(hi, v))

\* The rectangle spanned by the start point and the point pt brought into the
\* root's box.
SpannedRectangle(start, pt) ==
    LET root == getBoundingClientRect(RootPageRect, scroll)
        x == Nearest(root.left, root.right, pt.x)
        y == Nearest(root.top, root.bottom, pt.y)
    IN  [left |-> Min(x, start.x), right |-> Max(x, start.x),
         top |-> Min(y, start.y), bottom |-> Max(y, start.y)]

\* The step is a mousemove / touchmove at p that onMove handled: it stored the
\* rectangle computed for the location the event carries.
MouseMovedTo(p) ==
    /\ selectionRectangle' =
           computeSelectionRectangle(selectionStartPoint, clientLocation(p, scroll),
                                     getBoundingClientRect(RootPageRect, scroll))
    /\ MouseMove(p)
TouchMovedTo(p) ==
    /\ selectionRectangle' =
           computeSelectionRectangle(selectionStartPoint, pageLocation(p, scroll),
                                     getBoundingClientRect(RootPageRect, scroll))
    /\ TouchMove(p)

\* C16: after a move of a gesture in progress the selection rectangle is the
\* one spanned by the start point and the current point clamped into the root:
\* left and right the smaller and the larger x, top and bottom the smaller and
\* the larger y, whatever the earlier moves were.  Stated contrapositively: no
\* step that leaves another rectangle behind is a move to that point.
C16_RectangleFromStartAndMove ==
    [][(isMounted /\ selectionStarted) =>
          LET rootRect == getBoundingClientRect(RootPageRect, scroll)
          IN  \A p \in Point :
                  /\ (/\ selectionRectangle' =
                            computeSelectionRectangle(selectionStartPoint,
                                                      clientLocation(p, scroll), rootRect)
                      /\ selectionRectangle' #
                            SpannedRectangle(selectionStartPoint, clientLocation(p, scroll)))
                     => ~MouseMove(p)
                  /\ (/\ selectionRectangle' =
                            computeSelectionRectangle(selectionStartPoint,
                                                      pageLocation(p, scroll), rootRect)
                      /\ selectionRectangle' #
                            SpannedRectangle(selectionStartPoint, pageLocation(p, scroll)))
                     => ~TouchMove(p)]_vars

\* A gesture dragged down and to the left as far as the root's lower border.
C16_Witness ==
    /\ selectionStarted /\ isMounted
    /\ selectionRectangle.left < selectionStartPoint.x
    /\ selectionRectangle.right = selectionStartPoint.x
    /\ selectionRectangle.top = selectionStartPoint.y
    /\ selectionRectangle.bottom > selectionStartPoint.y
    /\ selectionRectangle.bottom = getBoundingClientRect(RootPageRect, scroll).bottom

\* The rectangle of a mouse / touch gesture that starts at viewport position
\* from and moves to viewport position to.
MouseDrag(from, to) ==
    computeSelectionRectangle(clientLocation(from, scroll), clientLocation(to, scroll),
                              getBoundingClientRect(RootPageRect, scroll))
TouchDrag(from, to) ==
    computeSelectionRectangle(pageLocation(from, scroll), pageLocation(to, scroll),
                              getBoundingClientRect(RootPageRect, scroll))

\* C17: a drag from P1 to P2 gives the selection rectangle of the drag from P2
\* to P1: after a move to P2 of a gesture started at P1, with both positions
\* inside the root, the rectangle is the one the gesture started at P2 has
\* after its move to P1.
C17_DragSymmetric ==
    [][(isMounted /\ selectionStarted) =>
          \A p1, p2 \in Point :
              (insideRoot(p1, scroll) /\ insideRoot(p2, scroll)) =>
                  /\ (selectionStartPoint = clientLocation(p1, scroll)
                         /\ MouseMovedTo(p2)) =>
                        selectionRectangle' = MouseDrag(p2, p1)
                  /\ (selectionStartPoint = pageLocation(p1, scroll)
                         /\ TouchMovedTo(p2)) =>
                        selectionRectangle' = TouchDrag(p2, p1)]_vars

\* C18: after every move of a gesture in progress the selection rectangle lies
\* within the root's box: left and right in the root's [left, right], top and
\* bottom in its [top, bottom].
C18_RectangleInsideRoot ==
    [][(MoveStep /\ isMounted /\ selectionStarted) =>
          Within(selectionRectangle', getBoundingClientRect(RootPageRect, scroll))]_vars

\* C19: when the element's rectangle or the selection rectangle has zero width
\* or zero height the membership test is false under either selection mode;
\* the zero-area rectangle right after a start matches no element.
C19_DegenerateNeverMatches ==
    \A e \in Selectable, mode \in SelectionMode :
        (~HasArea(elementRect(e, scroll)) \/ ~HasArea(selectionRectangle)) =>
            ~isSelectedBySelectionRectangle(selectionRectangle, mode,
                                            elementRect(e, scroll))

\* C20: the overlap test gives the same answer when the selection rectangle
\* and an element's rectangle change places.
C20_OverlapSymmetric ==
    \A e \in Selectable :
        doOverlap(selectionRectangle, elementRect(e, scroll)) =
            doOverlap(elementRect(e, scroll), selectionRectangle)

\* Every rectangle with corners on the grid.
Rectangles ==
    {rc \in [top : Coords, left : Coords, right : Coords, bottom : Coords] :
        rc.left <= rc.right /\ rc.top <= rc.bottom}

\* C21: an element rectangle with an area that the selection rectangle covers
\* also overlaps it; so for the same rectangle the elements selected under
\* FULL_COVER are among those selected under PARTIAL_COVER.
C21_CoverImpliesOverlap ==
    /\ \A er \in Rectangles :
          (HasArea(er) /\ HasArea(selectionRectangle)
             /\ covers(selectionRectangle, er)) => doOverlap(selectionRectangle, er)
    /\ Range(getSelectedElements(selectionRectangle, FULL_COVER, scroll)) \subseteq
          Range(getSelectedElements(selectionRectangle, PARTIAL_COVER, scroll))

\* A rectangle that covers one element and overlaps another without covering.
C21_Witness ==
    /\ selectionStarted /\ HasArea(selectionRectangle)
    /\ \E e1, e2 \in Selectable :
          /\ covers(selectionRectangle, elementRect(e1, scroll))
          /\ doOverlap(selectionRectangle, elementRect(e2, scroll))
          /\ ~covers(selectionRectangle, elementRect(e2, scroll))

\* The values a coordinate of an event or of a rectangle can take, and one
\* more on either side.
Values == (0 - 1)..(MaxCoord + 1)

\* C22: for from <= to, limitToRange gives a value of [from, to], leaves a
\* value strictly between from and to unchanged, and applied to its own result
\* gives that result again; so do the coordinates of the rectangle a move
\* stored when they are limited to the root once more.
C22_ClampIdempotent ==
    /\ \A from \in Values, to \in Values, v \in Values :
          from <= to =>
              LET c == limitToRange(from, to, v)
              IN  /\ from <= c /\ c <= to
                  /\ (from < v /\ v < to) => c = v
                  /\ limitToRange(from, to, c) = c
    /\ (selectionStarted /\ ~Hidden(rectStyle)) =>
          LET root == getBoundingClientRect(RootPageRect, scroll)
              free == ReleasePoint
          IN  /\ limitToRange(root.left, root.right, free.x) = free.x
              /\ limitToRange(root.top, root.bottom, free.y) = free.y

\* A rectangle that reaches from the root's upper left corner to its lower
\* right corner: both limits were met.
C22_Witness ==
    /\ selectionStarted /\ ~Hidden(rectStyle)
    /\ selectionRectangle = getBoundingClientRect(RootPageRect, scroll)

\* The step is a mousemove / touchmove that onMove handled.
MovedStep == \E p \in Point : MouseMovedTo(p) \/ TouchMovedTo(p)

\* The closed rectangles a and b meet.
Meet(a, b) ==
    /\ Max(a.left, b.left) <= Min(a.right, b.right)
    /\ Max(a.top, b.top) <= Min(a.bottom, b.bottom)

\* The selectable elements that satisfy the configured policy against rect:
\* they have an area and meet rect (partial cover) or lie within it (full).
Matching(rect) ==
    {e \in Selectable :
        LET er == elementRect(e, scroll)
        IN  /\ HasArea(er)
            /\ IF selectionMode = PARTIAL_COVER THEN Meet(rect, er)
               ELSE Within(er, rect)}

C24_MarksGestureScoped ==
    [][/\ ~selectionStarted' => NoPendingMark(marks')
       /\ EndedGesture' => NoPendingMark(marks')
       /\ CancelledGesture' => NoPendingMark(marks')
       /\ (CancelledGesture /\ ~StartStep) => NoPendingMark(marks')]_vars

\* The mark class of a mark mode.
ClassOf(markMode) ==
    IF markMode = ADD THEN markAddSelectedClass ELSE markRemoveSelectedClass

\* C25: a move of a gesture in progress leaves on every matching element
\* exactly the class of the mode last given to setSelectionMarkMode, also
\* when that was given during the gesture, and no class on any other element.
C25_ModeAppliesOnNextMove ==
    [][(isMounted /\ selectionStarted /\ MovedStep) =>
          \A e \in Selectable :
              marks'[e] = IF e \in Matching(selectionRectangle')
                          THEN {ClassOf(lastSetMode)} ELSE {}]_vars

\* During a gesture the mode was set to REMOVE after the move that marked
\* elements with the add class: the next move has to re-mark them.
C25_Witness ==
    /\ isMounted /\ selectionStarted /\ ~Hidden(rectStyle)
    /\ lastSetMode = REMOVE
    /\ \E e \in Selectable : marks[e] = {markAddSelectedClass}

\* A step of setSelectionMarkMode.
SetModeStep == \E m \in SelectionMarkMode : SetSelectionMarkMode(m)

\* C26: getSelectionMarkMode() is always the last value given to
\* setSelectionMarkMode (initially the configured one), no other operation
\* changes it, and setSelectionMarkMode changes nothing else of the
\* controller or the document.
C26_MarkModeIndependent ==
    [][/\ getSelectionMarkMode' = lastSetMode'
       /\ ~SetModeStep => getSelectionMarkMode' = getSelectionMarkMode
       /\ SetModeStep =>
             UNCHANGED <<isMounted, selectionStarted, isStillClick,
                         selectionStartPoint, selectionRectangle, document>>]_vars

\* The mode was set to ADD in the middle of a gesture whose last move marked
\* elements with the remove class; the gesture and its rectangle are intact.
C26_Witness ==
    /\ isMounted /\ selectionStarted /\ ~Hidden(rectStyle) /\ exceeded
    /\ getSelectionMarkMode = ADD
    /\ \E e \in Selectable : marks[e] = {markRemoveSelectedClass}

\* C27: a mousemove / touchmove while no gesture is in progress changes
\* neither the fields of the controller nor the document.
C27_MoveWhileIdle ==
    [][(~selectionStarted /\ MoveStep) => UNCHANGED <<controller, document>>]_vars

\* Mounted and idle after a gesture that ended away from its start point, and
\* the last event was neither a release nor a cancel.
C27_Witness ==
    /\ isMounted /\ ~selectionStarted /\ pre = NoPre
    /\ exceeded /\ ~isStillClick
    /\ selectionRectangle # Rect(selectionStartPoint.x, selectionStartPoint.y,
                                 selectionStartPoint.x, selectionStartPoint.y)

\* C28: a mousedown / touchstart that arrives while a gesture is in progress
\* changes neither the start point, the selection rectangle nor the
\* still-a-click flag.
C28_StartPointImmutable ==
    [][(isMounted /\ selectionStarted /\ StartStep) =>
          UNCHANGED <<selectionStartPoint, selectionRectangle, isStillClick>>]_vars

\* C30: a touch gesture stores what a mouse gesture through the same viewport
\* positions stores: a touchstart at viewport position p stores p as start
\* point and rectangle, and a touchmove to p stores the rectangle, and marks
\* the elements, of a mousemove to p.
C30_TouchLikeMouse ==
    [][\A p \in Point :
          /\ (isMounted /\ TouchStart(p)) =>
                /\ selectionStartPoint' = clientLocation(p, scroll)
                /\ selectionRectangle' = MouseDrag(p, p)
          /\ (isMounted /\ selectionStarted /\ TouchMovedTo(p)) =>
                LET rect == computeSelectionRectangle(selectionStartPoint,
                                clientLocation(p, scroll),
                                getBoundingClientRect(RootPageRect, scroll))
                IN  /\ selectionRectangle' = rect
                    /\ Marked(marks') = Matching(rect)]_vars

\* The selectable elements of the second Selector.
OtherSelectable == Range(getOtherSelectableElements)

\* A handler of the first Selector ran.
FirstStep ==
    \/ Mount
    \/ \E p \in TwoPoint : MouseDown(p) \/ MouseMove(p)
    \/ MouseUp(FALSE)

\* The second Selector handled a document-level mousemove or mouseup.
OtherDocumentStep == (\E p \in TwoPoint : OtherMouseMove(p)) \/ OtherMouseUp

\* C29: with two Selectors on disjoint roots, a mousedown inside the first
\* root does not reach the second Selector; the handlers of the first change
\* neither the second Selector nor the marks of the elements below its root,
\* and report none of these elements; and the second Selector, while it has
\* no gesture in progress, ignores the document-level moves and releases: it
\* stays idle, invokes no callback, its rectangle stays hidden and the
\* elements below its root stay unmarked.
C29_DisjointRoots ==
    [][/\ \A p \in Point :
             (insideRoot(p, scroll) /\ OtherMouseDown(p)) => UNCHANGED other
       /\ FirstStep =>
             /\ UNCHANGED other
             /\ \A e \in OtherSelectable : marks'[e] = marks[e]
             /\ \A i \in DOMAIN calls' :
                   Range(calls'[i].elements) \cap OtherSelectable = {}
       /\ (~other.selectionStarted /\ OtherDocumentStep) =>
             /\ ~other'.selectionStarted
             /\ other'.calls = << >>
             /\ Hidden(other'.rectStyle)
             /\ \A e \in OtherSelectable : marks'[e] = {}]_vars

\* Both Selectors are mounted; the first has a gesture in progress that has
\* marked elements and shows its rectangle; the second has finished a gesture
\* of its own before, is idle and hidden, and its elements are unmarked.
C29_Witness ==
    /\ isMounted /\ other.isMounted
    /\ selectionStarted /\ exceeded /\ ~Hidden(rectStyle)
    /\ Marked(marks) # {} /\ Marked(marks) \subseteq Selectable
    /\ ~other.selectionStarted /\ Hidden(other.rectStyle)
    /\ other.selectionStartPoint # OtherConstructed.selectionStartPoint

\* The rectangles have a point in common and no common area: they share an
\* edge, a part of one, or a corner only.
OnlyTouch(a, b) ==
    /\ Meet(a, b)
    /\ \/ Max(a.left, b.left) = Min(a.right, b.right)
       \/ Max(a.top, b.top) = Min(a.bottom, b.bottom)

\* C31: for an element rectangle and a selection rectangle with an area the
\* overlap test is false exactly when the element ends left of or above the
\* selection, or the selection ends left of or above the element; so it is
\* true whenever the two have a point in common, also when they share only
\* an edge or a corner.
C31_OverlapIffNotApart ==
    HasArea(selectionRectangle) =>
        \A er \in Rectangles :
            HasArea(er) =>
                /\ doOverlap(selectionRectangle, er) =
                      ~(\/ er.right < selectionRectangle.left
                        \/ selectionRectangle.right < er.left
                        \/ selectionRectangle.bottom < er.top
                        \/ er.bottom < selectionRectangle.top)
                /\ doOverlap(selectionRectangle, er) = Meet(selectionRectangle, er)
                /\ OnlyTouch(selectionRectangle, er) =>
                      doOverlap(selectionRectangle, er)

\* Under PARTIAL_COVER a move marked an element that shares only a corner
\* with the selection rectangle, and one that shares only an edge.
C31_Witness ==
    /\ selectionStarted /\ selectionMode = PARTIAL_COVER
    /\ HasArea(selectionRectangle)
    /\ \E e1, e2 \in Marked(marks) :
          LET r1 == elementRect(e1, scroll)
              r2 == elementRect(e2, scroll)
          IN  /\ Max(selectionRectangle.left, r1.left) =
                     Min(selectionRectangle.right, r1.right)
              /\ Max(selectionRectangle.top, r1.top) =
                     Min(selectionRectangle.bottom, r1.bottom)
              /\ OnlyTouch(selectionRectangle, r2)
              /\ Max(selectionRectangle.top, r2.top) <
                     Min(selectionRectangle.bottom, r2.bottom)

\* C32: for an element rectangle and a selection rectangle with an area the
\* cover test is true exactly when the four inclusive comparisons hold, that
\* is when the element lies within the selection; an element whose rectangle
\* equals the selection rectangle is covered.
C32_CoverIffWithin ==
    HasArea(selectionRectangle) =>
        /\ \A er \in Rectangles :
              HasArea(er) =>
                  covers(selectionRectangle, er) =
                      (/\ selectionRectangle.left <= er.left
                       /\ er.right <= selectionRectangle.right
                       /\ selectionRectangle.top <= er.top
                       /\ er.bottom <= selectionRectangle.bottom)
        /\ covers(selectionRectangle, selectionRectangle)

\* Under FULL_COVER a move marked an element whose rectangle is the selection
\* rectangle.
C32_Witness ==
    /\ selectionStarted /\ selectionMode = FULL_COVER
    /\ \E e \in Marked(marks) : elementRect(e, scroll) = selectionRectangle

\* Thresholds up to the longest side a rectangle on the grid can have, and
\* one more.
Thresholds == 0..(MaxCoord + 1)

\* C33: a rectangle is in click range exactly when its width and its height
\* are at most the threshold and the sum of their squares is at most the
\* square of the threshold, all three bounds inclusive; that is exactly when
\* the third test alone holds.  A displacement of the threshold along one
\* axis is in range, the same displacement along both axes is not.
C33_ClickRangeInclusive ==
    /\ \A t \in Thresholds, w \in Coords, h \in Coords :
          LET inRange == isInClickRange(Rect(0, 0, w, h), t)
          IN  /\ inRange = (w <= t /\ h <= t /\ w * w + h * h <= t * t)
              /\ inRange = (w * w + h * h <= t * t)
              /\ (w = t /\ h = 0) => inRange
              /\ (w = t /\ h = t /\ t > 0) => ~inRange
    /\ isInClickRange(selectionRectangle, clickThreshold) =
          ((selectionRectangle.right - selectionRectangle.left)
             * (selectionRectangle.right - selectionRectangle.left)
           + (selectionRectangle.bottom - selectionRectangle.top)
             * (selectionRectangle.bottom - selectionRectangle.top)
           <= clickThreshold * clickThreshold)
    /\ (selectionStarted /\ isStillClick) =>
          isInClickRange(selectionRectangle, clickThreshold)

\* The first move of a gesture went the threshold along both axes: each side
\* of the rectangle is within the threshold and the gesture is no click.
C33_Witness ==
    /\ selectionStarted /\ ~isStillClick
    /\ selectionRectangle.right - selectionRectangle.left = clickThreshold
    /\ selectionRectangle.bottom - selectionRectangle.top = clickThreshold
    /\ ~isInClickRange(selectionRectangle, clickThreshold)

\* The selection rectangle is zeroed and the selection <div> is hidden with
\* zero position and size.
Neutral(rect, style) ==
    /\ rect = Rect(0, 0, 0, 0)
    /\ style.left = 0 /\ style.top = 0 /\ style.width = 0 /\ style.height = 0
    /\ style.opacity = "0"

\* C34: while no gesture is in progress the selection rectangle is zeroed and
\* the selection <div> is hidden with zero position and size: before the
\* first gesture, after a completed gesture, and after a cancelled gesture
\* until a new one starts.
C34_GeometryNeutralWhenIdle ==
    [][/\ ~selectionStarted' => Neutral(selectionRectangle', rectStyle')
       /\ EndedGesture' => Neutral(selectionRectangle', rectStyle')
       /\ CancelledGesture' => Neutral(selectionRectangle', rectStyle')
       /\ (CancelledGesture /\ ~StartStep) =>
             Neutral(selectionRectangle', rectStyle')]_vars

\* The rectangle startSelection stores for a start at pt.
PointRectangle(pt) == Rect(pt.x, pt.y, pt.x, pt.y)

\* C36: with a click callback, a release that finds the gesture as the start
\* left it (still a click, the rectangle the start point itself), on a point
\* inside exactly one selectable element with an area, invokes the click
\* callback with that element and no other callback.
C36_PressAndReleaseClicks ==
    [][(/\ EndStep /\ isMounted /\ selectionStarted
        /\ hasClickCallback /\ isStillClick
        /\ selectionRectangle = PointRectangle(selectionStartPoint)
        /\ Cardinality(ElementsAt(selectionStartPoint)) = 1) =>
          \E e \in ElementsAt(selectionStartPoint) : calls' = << ClickCall(e) >>]_vars

\* Under PARTIAL_COVER every move marks the element under the start point:
\* a release that found no mark and invoked the click callback followed the
\* press without a move in between.
C36_Witness ==
    /\ EndedGesture /\ hasClickCallback /\ selectionMode = PARTIAL_COVER
    /\ pre.marked = {} /\ ~exceeded /\ isStillClick
    /\ \E e \in ElementsAt(selectionStartPoint) : calls = << ClickCall(e) >>

\* C37: while the controller is not mounted no gesture is in progress and no
\* selectable element carries a mark class; unmount() ends the gesture it
\* finds in progress.
C37_UnmountEndsGesture ==
    [][/\ ~isMounted' => (~selectionStarted' /\ NoPendingMark(marks'))
       /\ (Unmount /\ isMounted) => ~selectionStarted']_vars

\* C38: in every reachable state no element carries the add class and the
\* remove class at the same time, whatever calls of setSelectionMarkMode were
\* made during a gesture.
C38_OneMarkClass ==
    /\ markAddSelectedClass # markRemoveSelectedClass
    /\ \A e \in Elements :
          ~({markAddSelectedClass, markRemoveSelectedClass} \subseteq marks[e])

\* A gesture in progress with mode REMOVE whose last move marked two elements
\* with the remove class.
C38_Witness ==
    /\ isMounted /\ selectionStarted /\ lastSetMode = REMOVE
    /\ Cardinality({e \in Selectable : marks[e] = {markRemoveSelectedClass}}) >= 2

\* The selection <div> is visible.
Visible(style) == style.opacity # "0"

\* C39: the selection <div> is visible only while a gesture is in progress,
\* and then its width and height are right - left and bottom - top of the
\* selection rectangle, as the last move of the gesture set them, and are
\* not negative.
C39_VisibleRectangleMatches ==
    Visible(rectStyle) =>
        /\ selectionStarted
        /\ rectStyle.width = selectionRectangle.right - selectionRectangle.left
        /\ rectStyle.height = selectionRectangle.bottom - selectionRectangle.top
        /\ rectStyle.width >= 0 /\ rectStyle.height >= 0

\* The elements below the root that match selectableElementsQuery now.
Present == {e \in inQuery : ElementRoots[e] = RootPageRect}

\* Those of them that satisfy the configured policy against rect.
PresentMatching(rect) ==
    {e \in Present :
        LET er == elementRect(e, scroll)
        IN  /\ HasArea(er)
            /\ IF selectionMode = PARTIAL_COVER THEN Meet(rect, er)
               ELSE Within(er, rect)}

\* C35: the selectable set is queried anew on every move and at the release:
\* after a move the elements of the present set that carry a mark are those
\* of the present set that match the rectangle, and the release reports the
\* elements of the present set that match, in document order; so an element
\* that began to match the query during the gesture is marked and reported,
\* and one that stopped matching it is not reported.
C35_SetIsRequeried ==
    [][/\ (isMounted /\ selectionStarted /\ \E p \in DynPoint : MouseMovedTo(p)) =>
             {e \in Present : marks'[e] # {}} = PresentMatching(selectionRectangle')
       /\ (isMounted /\ selectionStarted /\ MouseUp(FALSE)) =>
             /\ Len(calls') = 1 /\ SelectedCallIn(calls')
             /\ Range(calls'[1].elements) = PresentMatching(selectionRectangle)
             /\ InDocumentOrder(calls'[1].elements)]_vars

\* A gesture with a move was released: an element that no move had marked was
\* reported (it began to match the query after the last move), and an element
\* that was marked was not reported (it had stopped matching the query).
C35_Witness ==
    /\ EndedGesture /\ exceeded /\ SelectedCallIn(calls)
    /\ \E e \in Range(calls[1].elements) : e \notin pre.marked
    /\ \E e \in pre.marked : e \notin inQuery /\ e \notin Range(calls[1].elements)

\* C40: while no gesture is in progress no element below the root carries a
\* mark class, also when an element that a move had marked stopped matching
\* selectableElementsQuery before the next move or the release.
C40_NoStaleMark ==
    ~selectionStarted =>
        \A e \in Elements : ElementRoots[e] = RootPageRect => marks[e] = {}

====
